---- MODULE Spec2Model ----
(***************************************************************************)
(* Model of src/app.py: a Flask service that stores the text and images    *)
(* extracted from uploaded PDF files in an in-process dictionary           *)
(* (app.pdf_contents) and answers questions about them through a remote    *)
(* chat-completion endpoint.                                               *)
(*                                                                         *)
(* Python strings are modelled as sequences of one-character strings; a    *)
(* fixed literal of the program is one element of such a sequence.  A      *)
(* value that may be None is a sequence of length 0 (None) or 1.           *)
(***************************************************************************)
EXTENDS Integers, Sequences, FiniteSets, TLC

(* ------------------------------------------------------------------ *)
(* Built-in string operations the program uses                          *)
(* ------------------------------------------------------------------ *)

None == <<>>

Some(v) == <<v>>

\* Characters str.strip() removes.
Whitespace == {" ", "\n"}

\* sep.join(parts)
RECURSIVE join(_, _)
join(sep, parts) ==
    IF parts = <<>> THEN <<>>
    ELSE IF Len(parts) = 1 THEN parts[1]
    ELSE parts[1] \o sep \o join(sep, Tail(parts))

RECURSIVE lstrip(_)
lstrip(s) == IF s # <<>> /\ Head(s) \in Whitespace THEN lstrip(Tail(s)) ELSE s

RECURSIVE rstrip(_)
rstrip(s) ==
    IF s # <<>> /\ s[Len(s)] \in Whitespace
    THEN rstrip(SubSeq(s, 1, Len(s) - 1))
    ELSE s

\* s.strip()
strip(s) == rstrip(lstrip(s))

\* Truth value of an optional string: None and '' are false.
Truthy(opt) == opt # None /\ opt[1] # <<>>

(* ------------------------------------------------------------------ *)
(* extract_pdf_text                                                     *)
(* ------------------------------------------------------------------ *)

\* ' '.join(str(cell) for cell in row if cell)
RowText(row) ==
    LET cells == SelectSeq(row, Truthy)
    IN  join(<<" ">>, [i \in 1..Len(cells) |-> cells[i][1]])

\* table_text after the loop over the page's tables: one string per row.
RECURSIVE TableText(_)
TableText(tables) ==
    IF tables = <<>> THEN <<>>
    ELSE [i \in 1..Len(Head(tables)) |-> RowText(Head(tables)[i])]
         \o TableText(Tail(tables))

\* PageContribution with the word list tried before the page text.
PageContributionWordsFirst(page) ==
    IF page.raises = 1 THEN <<>>
    ELSE IF page.words # <<>> THEN <<join(<<" ">>, page.words)>>
    ELSE IF Truthy(page.text) THEN <<page.text[1]>>
    ELSE IF page.raises = 3 THEN <<>>
    ELSE IF page.tables # <<>>
         THEN LET table_text == TableText(page.tables)
              IN  IF table_text # <<>> THEN <<join(<<"\n">>, table_text)>> ELSE <<>>
         ELSE <<>>

\* The elements one iteration of the page loop appends to the list `text`.
\* page.raises = k > 0: the k-th extraction call made on the page (extract_text,
\* extract_words, extract_tables) raises, if the loop body gets to it.
PageContribution(page) ==
    IF page.raises = 1 THEN <<>>
    ELSE IF Truthy(page.text) THEN <<page.text[1]>>
    ELSE IF page.raises = 2 THEN <<>>
    ELSE IF page.words # <<>> THEN <<join(<<" ">>, page.words)>>
    ELSE IF page.raises = 3 THEN <<>>
    ELSE IF page.tables # <<>>
         THEN LET table_text == TableText(page.tables)
              IN  IF table_text # <<>> THEN <<join(<<"\n">>, table_text)>> ELSE <<>>
         ELSE <<>>

\* The list `text` after the loop over pdf.pages.
RECURSIVE PageLoop(_)
PageLoop(pages) ==
    IF pages = <<>> THEN <<>>
    ELSE PageContribution(Head(pages)) \o PageLoop(Tail(pages))

\* final_text and the return value: None when the joined text strips to ''.
Finalize(text) ==
    LET final_text == join(<<"\n">>, text)
    IN  IF strip(final_text) # <<>> THEN Some(final_text) ELSE None

\* extract_pdf_text(pdf_path), `file` being what is at pdf_path: None (no such
\* file) or a document; pdfplumber.open raises on a document it cannot read.
extract_pdf_text(file) ==
    IF file = None THEN None
    ELSE IF ~file[1].plumberOpens THEN None
    ELSE Finalize(PageLoop(file[1].pages))

(* ------------------------------------------------------------------ *)
(* Inputs of the extraction specification                               *)
(* ------------------------------------------------------------------ *)

MaxPages == 3

Page(text, words, tables, raises) ==
    [text |-> text, words |-> words, tables |-> tables, raises |-> raises]

TableAB == <<<<Some(<<"A">>), Some(<<"B">>)>>>>
TableEmptyCells == <<<<Some(<<>>), None>>>>
TableMixed == <<<<Some(<<"A">>), None, Some(<<"B">>)>>, <<None>>, <<Some(<<"C">>)>>>>
TableNoRows == <<>>

\* What the extraction library may report for one page.
PageKinds ==
    { Page(Some(<<"H">>), <<>>, <<>>, 0),
      Page(Some(<<"G", "\n", "g">>), <<<<"G">>, <<"g">>>>, <<TableAB>>, 0),
      Page(Some(<<"H">>), <<>>, <<>>, 2),
      Page(Some(<<" ">>), <<>>, <<>>, 0),
      Page(None, <<<<"w">>, <<"v">>>>, <<>>, 0),
      Page(Some(<<>>), <<<<"w">>>>, <<TableAB>>, 3),
      Page(None, <<>>, <<TableAB>>, 0),
      Page(Some(<<>>), <<>>, <<TableMixed, TableAB>>, 0),
      Page(None, <<>>, <<TableEmptyCells>>, 0),
      Page(None, <<>>, <<TableNoRows>>, 0),
      Page(None, <<>>, <<>>, 0),
      Page(Some(<<"H">>), <<>>, <<>>, 1),
      Page(None, <<<<"w">>>>, <<>>, 2),
      Page(None, <<>>, <<TableAB>>, 3) }

RECURSIVE SeqsUpTo(_, _)
SeqsUpTo(S, n) ==
    IF n = 0 THEN {<<>>}
    ELSE LET shorter == SeqsUpTo(S, n - 1)
         IN  shorter \cup {Append(s, x) : s \in shorter, x \in S}

ExtractFiles ==
    {None}
    \cup {Some([plumberOpens |-> o, pages |-> ps]) :
            o \in BOOLEAN, ps \in SeqsUpTo(PageKinds, MaxPages)}

(* ------------------------------------------------------------------ *)
(* File names                                                           *)
(* ------------------------------------------------------------------ *)

\* str.lower() on the characters the model's names use.
LowerChar(c) ==
    CASE c = "P" -> "p"
      [] c = "D" -> "d"
      [] c = "F" -> "f"
      [] OTHER -> c

lower(s) == [i \in 1..Len(s) |-> LowerChar(s[i])]

endswith(s, suffix) ==
    /\ Len(s) >= Len(suffix)
    /\ SubSeq(s, Len(s) - Len(suffix) + 1, Len(s)) = suffix

RECURSIVE lstripChars(_, _)
lstripChars(s, chars) ==
    IF s # <<>> /\ Head(s) \in chars THEN lstripChars(Tail(s), chars) ELSE s

RECURSIVE rstripChars(_, _)
rstripChars(s, chars) ==
    IF s # <<>> /\ s[Len(s)] \in chars
    THEN rstripChars(SubSeq(s, 1, Len(s) - 1), chars)
    ELSE s

\* werkzeug's secure_filename on the model's names: a path separator ends a
\* word, the words are joined by "_", and leading and trailing "." and "_" are
\* stripped.
RECURSIVE SplitWords(_, _)
SplitWords(s, word) ==
    IF s = <<>> THEN (IF word = <<>> THEN <<>> ELSE <<word>>)
    ELSE IF Head(s) \in {"/", " "}
         THEN (IF word = <<>> THEN <<>> ELSE <<word>>) \o SplitWords(Tail(s), <<>>)
         ELSE SplitWords(Tail(s), Append(word, Head(s)))

secure_filename(raw) ==
    rstripChars(lstripChars(join(<<"_">>, SplitWords(raw, <<>>)), {".", "_"}), {".", "_"})

NameA == <<"a", ".", "p", "d", "f">>
NameAPath == <<".", ".", "/", "a", ".", "p", "d", "f">>
NameB == <<"b", ".", "P", "D", "F">>
NameTxt == <<"n", ".", "t", "x", "t">>

\* file.filename of an upload request.
RawNames == {<<>>, NameAPath, NameB, NameTxt}

\* The keys an upload can store under.
StoreNames == {secure_filename(n) : n \in {m \in RawNames : endswith(lower(m), <<".", "p", "d", "f">>)}}

\* data['filename'] of an ask request.
AskNames == {NameA, NameAPath, NameB}

Question == <<"q">>

(* ------------------------------------------------------------------ *)
(* extract_images_from_pdf                                              *)
(* ------------------------------------------------------------------ *)

\* Decimal digits of the small numbers the model formats.
Dec(n) ==
    CASE n = 0 -> "0" [] n = 1 -> "1" [] n = 2 -> "2" [] n = 3 -> "3" [] n = 4 -> "4"
      [] n = 5 -> "5" [] n = 6 -> "6" [] n = 7 -> "7" [] n = 8 -> "8" [] n = 9 -> "9"

\* f'page_{page_num + 1}_image_{img_index + 1}.png'
ImageFilename(img) == <<"page_", Dec(img.page), "_image_", Dec(img.index), ".png">>

\* base64.b64encode(...).decode(): an encoding of the image's bytes.
B64(data) == <<"b64:", data>>

\* The dictionary appended to `images` for one decodable image.
ImageEntry(img) ==
    [filename |-> ImageFilename(img), page |-> img.page, base64 |-> B64(img.data)]

\* The list extract_images_from_pdf returns: the images that decode, in page
\* order; [] when fitz cannot open the file.
extract_images_from_pdf(file) ==
    IF file = None \/ ~file[1].fitzOpens THEN <<>>
    ELSE LET good == SelectSeq(file[1].images, LAMBDA img : img.decodes)
         IN  [i \in 1..Len(good) |-> ImageEntry(good[i])]

\* The files image.save writes under uploads/images.
SavedImages(file) == {e.filename : e \in {extract_images_from_pdf(file)[i] :
                                            i \in 1..Len(extract_images_from_pdf(file))}}

(* ------------------------------------------------------------------ *)
(* Uploaded documents                                                   *)
(* ------------------------------------------------------------------ *)

Image(page, index, decodes, data) ==
    [page |-> page, index |-> index, decodes |-> decodes, data |-> data]

Doc(plumberOpens, fitzOpens, pages, images) ==
    [plumberOpens |-> plumberOpens, fitzOpens |-> fitzOpens,
     pages |-> pages, images |-> images]

PageH == Page(Some(<<"H">>), <<>>, <<>>, 0)
PageTable == Page(None, <<>>, <<TableAB>>, 0)
PageNothing == Page(None, <<>>, <<>>, 0)
PageEmptyCells == Page(None, <<>>, <<TableEmptyCells>>, 0)
PageSpace == Page(Some(<<" ">>), <<>>, <<>>, 0)

DocText == Doc(TRUE, TRUE, <<PageH, PageTable>>, <<>>)
DocImage == Doc(TRUE, TRUE, <<PageNothing>>, <<Image(1, 1, TRUE, "x")>>)
DocBoth ==
    Doc(TRUE, TRUE, <<Page(Some(<<"T">>), <<>>, <<>>, 0), PageNothing>>,
        <<Image(1, 1, TRUE, "y"), Image(1, 2, FALSE, "bad"), Image(2, 1, TRUE, "z")>>)
DocBlank ==
    Doc(TRUE, TRUE, <<PageEmptyCells, PageSpace, PageNothing, PageEmptyCells>>,
        <<Image(1, 1, FALSE, "bad")>>)
DocCorrupt == Doc(FALSE, FALSE, <<>>, <<>>)

\* The files the model uploads and stores, by label, and their contents.
\* "truncated" is what a file.save that fails midway may leave behind.
Bytes(label) ==
    CASE label = "text" -> DocText
      [] label = "image" -> DocImage
      [] label = "both" -> DocBoth
      [] label = "blank" -> DocBlank
      [] label = "truncated" -> DocCorrupt

\* The bytes an upload request may carry.
ServerDocs == {"text", "image", "both", "blank"}

(* ------------------------------------------------------------------ *)
(* get_answer_from_model                                                *)
(* ------------------------------------------------------------------ *)

Header == <<"\n", "\n", "The document also contains the following images:", "\n">>

\* f"\nImage {idx} (on page {img['page']}):\n"
ImageLabel(idx, img) == <<"\n", "Image ", Dec(idx), " (on page ", Dec(img.page), "):", "\n">>

\* choices[0].message.content of a description call that returns choices.
Description == <<"d">>

\* What the remote endpoint may do with a description call.
DescribeOutcomes == {"ok", "nochoices", "raise"}

\* What the remote endpoint may do with the answer call: choices with a reply,
\* choices with an empty reply, no choices, an error.
AnswerOutcomes == {"ok", "empty", "nochoices", "raise"}

\* full_context before the loop over the images.
ContextStart(text, images) == IF images # <<>> THEN text \o Header ELSE text

\* full_context after the loop body has run for image idx with `outcome`.
DescribeStep(ctx, idx, img, outcome) ==
    IF outcome = "ok"
    THEN ctx \o ImageLabel(idx, img) \o Description \o <<"\n">>
    ELSE ctx \o ImageLabel(idx, img)

AnswerText == <<"r">>

\* The value get_answer_from_model returns after the answer call.
ModelAnswer(outcome) ==
    CASE outcome = "ok" -> Some(AnswerText)
      [] outcome = "empty" -> Some(<<>>)
      [] outcome = "nochoices" -> None
      [] outcome = "raise" -> None

(* ------------------------------------------------------------------ *)
(* Responses                                                            *)
(* ------------------------------------------------------------------ *)

ErrorResponse(status, msg) == [status |-> status, error |-> msg]

UploadOkResponse(filename, text, images) ==
    [status |-> 200, message |-> "File uploaded successfully", filename |-> filename,
     text_length |-> IF Truthy(text) THEN Len(text[1]) ELSE 0,
     image_count |-> Len(images)]

\* The entry upload_file stores: 'text': text or '', 'images': images.  `by` is
\* history: the bytes the writing request uploaded.
StoreEntry(r) ==
    [text |-> IF Truthy(r.text) THEN r.text[1] ELSE <<>>, images |-> r.images,
     by |-> r.doc[1]]

\* Lines 310-319.
AskResponse(answer, text, images) ==
    IF Truthy(answer)
    THEN [status |-> 200, answer |-> answer[1],
          text_length |-> Len(text), image_count |-> Len(images)]
    ELSE ErrorResponse(500, "Could not get an answer from the model")

(* ------------------------------------------------------------------ *)
(* The server                                                           *)
(* ------------------------------------------------------------------ *)

\* Requests handled at once (the server's threads), and requests received in a run.
NumProcs == 2
MaxRequests == 2

Procs == 1..NumProcs

VARIABLES
    apiKey,     \* os.getenv('GITHUB_API_KEY') is set
    attr,       \* app.pdf_contents: 0 (no such attribute) or the dictionary it names
    heap,       \* the dictionaries getattr's default {} created, by creating request slot
    fs,         \* the files under uploads/, by sanitized name
    imgdir,     \* the files under uploads/images
    nreq,       \* requests received so far
    rq,         \* per slot, the request being handled and its local variables
    xfile, xpc, xi, xtext, xcontrib, xresult   \* a run of extract_pdf_text alone

svars == <<apiKey, attr, heap, fs, imgdir, nreq, rq>>

xvars == <<xfile, xpc, xi, xtext, xcontrib, xresult>>

vars == <<svars, xvars>>

EmptyDict == [n \in {} |-> None]

IdleRequest ==
    [kind |-> "idle", pc |-> "idle", body |-> None, fname |-> <<>>, doc |-> None,
     text |-> None, images |-> <<>>, ref |-> 0,
     ctx |-> <<>>, idx |-> 0, descs |-> <<>>, calls |-> 0, call |-> "-",
     resp |-> None]

\* app.pdf_contents, as a dictionary (empty while the attribute is missing).
Store == IF attr = 0 THEN EmptyDict ELSE heap[attr]

\* The names a store write was ever made for: no dictionary loses a key.
Written == UNION {DOMAIN heap[d] : d \in Procs}

\* The request returns `response`; its local variables are gone, and the slot
\* keeps what the request was, the calls it made and what it answered.
Finish(r, response) ==
    [IdleRequest EXCEPT !.kind = r.kind, !.pc = "done", !.body = r.body,
                        !.calls = r.calls, !.call = r.call, !.resp = Some(response)]

SInit ==
    /\ apiKey \in BOOLEAN
    /\ attr = 0
    /\ heap = [p \in Procs |-> EmptyDict]
    /\ fs = [n \in StoreNames |-> None]
    /\ imgdir = {}
    /\ nreq = 0
    /\ rq = [p \in Procs |-> IdleRequest]

XOff ==
    /\ xfile = None
    /\ xpc = "off"
    /\ xi = 0
    /\ xtext = <<>>
    /\ xcontrib = <<>>
    /\ xresult = None

Init == SInit /\ XOff

(* ---------------------------- upload_file ---------------------------- *)

\* The slot a new request is handled in: the first one that handles none.
Free(p) == rq[p].pc \in {"idle", "done"}

FirstFree(p) == Free(p) /\ \A q \in Procs : Free(q) => p <= q

\* What an upload request may carry: whether it has a 'file' part, the part's
\* filename and bytes, and what file.save does with them.
UploadInputs ==
    {[hasFile |-> FALSE, raw |-> <<>>, doc |-> "text", save |-> "saved"]}
    \cup {[hasFile |-> TRUE, raw |-> n, doc |-> "text", save |-> "saved"] :
            n \in {m \in RawNames : ~endswith(lower(m), <<".", "p", "d", "f">>)}}
    \cup {[hasFile |-> TRUE, raw |-> n, doc |-> d, save |-> "saved"] :
            n \in {m \in RawNames : endswith(lower(m), <<".", "p", "d", "f">>)},
            d \in ServerDocs}
    \cup {[hasFile |-> TRUE, raw |-> n, doc |-> "text", save |-> o] :
            n \in {m \in RawNames : endswith(lower(m), <<".", "p", "d", "f">>)},
            o \in {"raise", "raise_partial"}}

\* Lines 235-248: the request arrives, is validated, and file.save(filepath)
\* writes its bytes.  file.save may raise (answered by lines 276-278), leaving
\* the path as it was or holding a truncated file.
UploadReceive(p) ==
    /\ FirstFree(p)
    /\ nreq < MaxRequests
    /\ nreq' = nreq + 1
    /\ \E in \in UploadInputs :
         LET r == [IdleRequest EXCEPT !.kind = "upload"]
             filename == secure_filename(in.raw)
         IN  IF ~in.hasFile
             THEN /\ rq' = [rq EXCEPT ![p] = Finish(r, ErrorResponse(400, "No file part"))]
                  /\ fs' = fs
             ELSE IF in.raw = <<>>
             THEN /\ rq' = [rq EXCEPT ![p] =
                             Finish(r, ErrorResponse(400, "No selected file"))]
                  /\ fs' = fs
             ELSE IF ~endswith(lower(in.raw), <<".", "p", "d", "f">>)
             THEN /\ rq' = [rq EXCEPT ![p] =
                             Finish(r, ErrorResponse(400, "File must be a PDF"))]
                  /\ fs' = fs
             ELSE IF in.save # "saved"
             THEN /\ rq' = [rq EXCEPT ![p] = Finish(r, ErrorResponse(500, "exception"))]
                  /\ fs' = IF in.save = "raise" THEN fs
                           ELSE [fs EXCEPT ![filename] = Some("truncated")]
             ELSE /\ rq' = [rq EXCEPT ![p] = [r EXCEPT !.pc = "extract_text",
                                                       !.fname = filename,
                                                       !.doc = Some(in.doc)]]
                  /\ fs' = [fs EXCEPT ![filename] = Some(in.doc)]
    /\ UNCHANGED <<apiKey, attr, heap, imgdir, xvars>>

\* The document at uploads/<name>, or None.
FileAt(name) == IF fs[name] = None THEN None ELSE Some(Bytes(fs[name][1]))

\* Line 253.
UploadExtractText(p) ==
    /\ rq[p].kind = "upload" /\ rq[p].pc = "extract_text"
    /\ rq' = [rq EXCEPT ![p] = [@ EXCEPT !.pc = "extract_images",
                                         !.text = extract_pdf_text(FileAt(rq[p].fname))]]
    /\ UNCHANGED <<apiKey, attr, heap, fs, imgdir, nreq, xvars>>

\* A content check that lets every upload through.
NoContentNever(text, images) == FALSE

\* A content check that looks at the text alone.
NoContentTextOnly(text, images) == ~Truthy(text)

\* Line 259: `if not text and not images`.
NoContent(text, images) == ~Truthy(text) /\ images = <<>>

\* Lines 256-260.
UploadExtractImages(p) ==
    /\ rq[p].kind = "upload" /\ rq[p].pc = "extract_images"
    /\ LET images == extract_images_from_pdf(FileAt(rq[p].fname))
           r == [rq[p] EXCEPT !.images = images]
       IN  rq' = [rq EXCEPT ![p] =
               IF NoContent(r.text, images)
               THEN Finish(r, ErrorResponse(400, "Could not extract any content from PDF"))
               ELSE [r EXCEPT !.pc = "getattr"]]
    /\ imgdir' = imgdir \cup SavedImages(FileAt(rq[p].fname))
    /\ UNCHANGED <<apiKey, attr, heap, fs, nreq, xvars>>

\* Line 263, right-hand side: getattr(app, 'pdf_contents', {}).
UploadGetattr(p) ==
    /\ rq[p].kind = "upload" /\ rq[p].pc = "getattr"
    /\ rq' = [rq EXCEPT ![p] = [@ EXCEPT !.pc = "assign",
                                         !.ref = IF attr = 0 THEN p ELSE attr]]
    /\ UNCHANGED <<apiKey, attr, heap, fs, imgdir, nreq, xvars>>

\* Line 263, the assignment to app.pdf_contents.
UploadAssign(p) ==
    /\ rq[p].kind = "upload" /\ rq[p].pc = "assign"
    /\ attr' = rq[p].ref
    /\ rq' = [rq EXCEPT ![p] = [@ EXCEPT !.pc = "index"]]
    /\ UNCHANGED <<apiKey, heap, fs, imgdir, nreq, xvars>>

\* Lines 264-274: app.pdf_contents[filename] = {...} and the response.
UploadIndex(p) ==
    /\ rq[p].kind = "upload" /\ rq[p].pc = "index"
    /\ heap' = [heap EXCEPT ![attr] =
                   [n \in DOMAIN @ \cup {rq[p].fname} |->
                       IF n = rq[p].fname THEN StoreEntry(rq[p]) ELSE @[n]]]
    /\ rq' = [rq EXCEPT ![p] =
            Finish(rq[p], UploadOkResponse(rq[p].fname, rq[p].text, rq[p].images))]
    /\ UNCHANGED <<apiKey, attr, fs, imgdir, nreq, xvars>>

(* ---------------------------- ask_question --------------------------- *)

\* A credential check that always passes.
KeyConfiguredAlways == TRUE

\* Line 283: `if not os.getenv(...)` fails the request.
KeyConfigured == apiKey

\* A presence check that always passes.
StoredAlways(filename) == TRUE

\* Line 294: hasattr(app, 'pdf_contents') and filename in app.pdf_contents.
Stored(filename) == attr # 0 /\ filename \in DOMAIN Store

\* Lines 283-295: the request arrives; the credential, the body and the store
\* are checked.  `filename` and `question` are None when the body lacks the key.
AskReceive(p) ==
    /\ FirstFree(p)
    /\ nreq < MaxRequests
    /\ nreq' = nreq + 1
    /\ \E filename \in {None} \cup {Some(n) : n \in AskNames},
          question \in {None, Some(Question)} :
         LET r == [IdleRequest EXCEPT !.kind = "ask",
                       !.body = Some([filename |-> filename, question |-> question])]
         IN  rq' = [rq EXCEPT ![p] =
                 IF ~KeyConfigured
                 THEN Finish(r, ErrorResponse(500, "API key not configured"))
                 ELSE IF filename = None \/ question = None
                 THEN Finish(r, ErrorResponse(400, "Question and filename are required"))
                 ELSE IF ~Stored(filename[1])
                 THEN Finish(r, ErrorResponse(404, "File not found or not processed"))
                 ELSE [r EXCEPT !.pc = "read", !.fname = filename[1]]]
    /\ UNCHANGED <<apiKey, attr, heap, fs, imgdir, xvars>>

\* Lines 299-301 and 155-157: content = app.pdf_contents[filename] (a KeyError
\* is answered by lines 321-323), then the start of get_answer_from_model.
AskRead(p) ==
    /\ rq[p].kind = "ask" /\ rq[p].pc = "read"
    /\ rq' = [rq EXCEPT ![p] =
            IF rq[p].fname \notin DOMAIN Store
            THEN Finish(@, ErrorResponse(500, "exception"))
            ELSE LET content == Store[rq[p].fname]
                 IN  [@ EXCEPT !.text = Some(content.text),
                               !.images = content.images,
                               !.ctx = ContextStart(content.text, content.images),
                               !.idx = 1,
                               !.pc = IF content.images # <<>> THEN "describe"
                                      ELSE "answer"]]
    /\ UNCHANGED <<apiKey, attr, heap, fs, imgdir, nreq, xvars>>

\* Lines 158-195: one iteration of the loop over the images, with its
\* description call.  descs keeps the outcome of each call.
AskDescribe(p) ==
    /\ rq[p].kind = "ask" /\ rq[p].pc = "describe"
    /\ \E outcome \in DescribeOutcomes :
         rq' = [rq EXCEPT ![p] =
             [@ EXCEPT !.ctx = DescribeStep(rq[p].ctx, rq[p].idx,
                                            rq[p].images[rq[p].idx], outcome),
                       !.descs = Append(@, outcome),
                       !.calls = @ + 1,
                       !.idx = @ + 1,
                       !.pc = IF rq[p].idx = Len(rq[p].images) THEN "answer"
                              ELSE "describe"]]
    /\ UNCHANGED <<apiKey, attr, heap, fs, imgdir, nreq, xvars>>

\* Lines 199-231 and 310-319: the answer call and the response.
AskAnswer(p) ==
    /\ rq[p].kind = "ask" /\ rq[p].pc = "answer"
    /\ \E outcome \in AnswerOutcomes :
         rq' = [rq EXCEPT ![p] =
             Finish([rq[p] EXCEPT !.calls = @ + 1, !.call = outcome],
                    AskResponse(ModelAnswer(outcome), rq[p].text[1], rq[p].images))]
    /\ UNCHANGED <<apiKey, attr, heap, fs, imgdir, nreq, xvars>>

Next ==
    \E p \in Procs :
        \/ UploadReceive(p)
        \/ UploadExtractText(p)
        \/ UploadExtractImages(p)
        \/ UploadGetattr(p)
        \/ UploadAssign(p)
        \/ UploadIndex(p)
        \/ AskReceive(p)
        \/ AskRead(p)
        \/ AskDescribe(p)
        \/ AskAnswer(p)

Spec == Init /\ [][Next]_vars

(* ------------------------------------------------------------------ *)
(* extract_pdf_text run alone, on every bounded document                *)
(* ------------------------------------------------------------------ *)

XInit ==
    /\ xfile \in ExtractFiles
    /\ xpc = "open"
    /\ xi = 0
    /\ xtext = <<>>
    /\ xcontrib = <<>>
    /\ xresult = None

\* Lines 87-93: the existence check and pdfplumber.open.
XOpen ==
    /\ xpc = "open"
    /\ xpc' = IF xfile = None \/ ~xfile[1].plumberOpens THEN "done" ELSE "loop"
    /\ UNCHANGED <<xfile, xi, xtext, xcontrib, xresult, svars>>

\* Lines 97-130: one iteration of the loop over pdf.pages.  xcontrib keeps,
\* per page, what the iteration appended.
XPage ==
    /\ xpc = "loop"
    /\ xi < Len(xfile[1].pages)
    /\ xi' = xi + 1
    /\ xtext' = xtext \o PageContribution(xfile[1].pages[xi + 1])
    /\ xcontrib' = Append(xcontrib, PageContribution(xfile[1].pages[xi + 1]))
    /\ UNCHANGED <<xfile, xpc, xresult, svars>>

\* Lines 132-141.
XFinish ==
    /\ xpc = "loop"
    /\ xi = Len(xfile[1].pages)
    /\ xresult' = Finalize(xtext)
    /\ xpc' = "done"
    /\ UNCHANGED <<xfile, xi, xtext, xcontrib, svars>>

XNext == XOpen \/ XPage \/ XFinish

\* The server is idle throughout.
ExtractInit == SInit /\ apiKey = TRUE /\ XInit

SpecExtract == ExtractInit /\ [][XNext]_vars

(* ------------------------------------------------------------------ *)
(* Properties of extract_pdf_text (under SpecExtract)                   *)
(* ------------------------------------------------------------------ *)

\* The page xcontrib[k] was computed from.
XPageAt(k) == xfile[1].pages[k]

\* An extraction call raised while page's iteration ran: the call is made
\* only when the strategies before it yielded nothing.
Raised(page) ==
    \/ page.raises = 1
    \/ page.raises = 2 /\ ~Truthy(page.text)
    \/ page.raises = 3 /\ ~Truthy(page.text) /\ page.words = <<>>

\* What the three strategies yield for a page.
DirectText(page) == IF page.text = None THEN <<>> ELSE page.text[1]
WordText(page) == join(<<" ">>, page.words)
CellText(page) == join(<<"\n">>, TableText(page.tables))

\* The output of the first strategy, in the order direct text, words, table
\* cells, whose output is not empty ('' when none is).
FirstNonEmpty(page) ==
    IF DirectText(page) # <<>> THEN DirectText(page)
    ELSE IF WordText(page) # <<>> THEN WordText(page)
    ELSE CellText(page)

ExampleFile ==
    Some([plumberOpens |-> TRUE,
          pages |-> <<Page(Some(<<"H">>), <<>>, <<>>, 0),
                      Page(None, <<>>, <<TableAB>>, 0)>>])

\* C2: every page whose extraction raises nothing and for which some strategy
\* yields output contributes exactly the output of the first such strategy in
\* the order direct text, words joined by single spaces, table rows joined by
\* newlines; and the pages [text "H"], [table [["A","B"]]] give "H\nA B".
C2_FirstStrategyWins ==
    /\ \A k \in 1..Len(xcontrib) :
         (~Raised(XPageAt(k)) /\ FirstNonEmpty(XPageAt(k)) # <<>>)
            => xcontrib[k] = <<FirstNonEmpty(XPageAt(k))>>
    /\ (xpc = "done" /\ xfile = ExampleFile)
            => xresult = Some(<<"H", "\n", "A", " ", "B">>)

\* A page with text, words and a table and a page with words and a table but
\* no text have been extracted.
C2_Witness ==
    /\ xpc = "done"
    /\ Len(xcontrib) = 2
    /\ Truthy(XPageAt(1).text) /\ XPageAt(1).words # <<>> /\ XPageAt(1).tables # <<>>
    /\ ~Truthy(XPageAt(2).text) /\ XPageAt(2).words # <<>> /\ XPageAt(2).tables # <<>>
    /\ xresult = Some(<<"G", "\n", "g", "\n", "w">>)

\* The non-empty elements of a list of strings, in order.
NonEmpty(parts) == SelectSeq(parts, LAMBDA s : s # <<>>)

\* C6: the returned text is the newline-join, in page order, of exactly the
\* non-empty page contributions; a page for which the three strategies yield
\* nothing, or whose extraction raises, adds no element to the joined list.
C6_OnlyNonEmptyContributions ==
    /\ \A k \in 1..Len(xcontrib) :
         (Raised(XPageAt(k)) \/ FirstNonEmpty(XPageAt(k)) = <<>>) => xcontrib[k] = <<>>
    /\ (xpc = "done" /\ xresult # None)
         => xresult[1] = join(<<"\n">>, NonEmpty(xtext))

(* ------------------------------------------------------------------ *)
(* Properties of the server (under Spec)                                *)
(* ------------------------------------------------------------------ *)

IsAsk(p) == rq[p].kind = "ask"

IsUpload(p) == rq[p].kind = "upload"

Done(p) == rq[p].pc = "done"

\* data['filename'] of the ask in slot p names a file no store write was
\* ever made for.
AsksUnstored(p) ==
    /\ IsAsk(p)
    /\ rq[p].body[1].filename # None
    /\ rq[p].body[1].filename[1] \notin Written

\* C1 as amended: an ask whose filename was never stored makes no remote call
\* and is not answered: it ends with 500 'API key not configured' when the
\* credential is absent, else with 400 when the question is missing, else
\* with 404; and an ask that got past the presence check names a stored file.
C1_UnstoredNeverAnswered ==
    \A p \in Procs :
        /\ AsksUnstored(p) =>
             /\ Done(p)
             /\ rq[p].calls = 0
             /\ rq[p].resp[1] =
                  IF ~apiKey THEN ErrorResponse(500, "API key not configured")
                  ELSE IF rq[p].body[1].question = None
                       THEN ErrorResponse(400, "Question and filename are required")
                  ELSE ErrorResponse(404, "File not found or not processed")
        /\ (IsAsk(p) /\ (~Done(p) \/ rq[p].calls > 0 \/ rq[p].resp[1].status = 200))
             => (rq[p].body[1].filename # None
                 /\ rq[p].body[1].filename[1] \in Written)

\* With the credential set, a complete ask about a never-stored name has been
\* answered 404 while another name is stored.
C1_Witness ==
    /\ apiKey
    /\ Written # {}
    /\ \E p \in Procs :
         /\ AsksUnstored(p) /\ Done(p)
         /\ rq[p].body[1].question # None
         /\ rq[p].resp[1].status = 404

\* C1 as stated: an ask whose filename was never stored ends with 404 and
\* makes no remote call.
C1_UnstoredIs404 ==
    \A p \in Procs :
        AsksUnstored(p) =>
            /\ Done(p)
            /\ rq[p].calls = 0
            /\ rq[p].resp[1].status = 404

\* The response ask_question gives when the answer call ends with `outcome`.
Surfaced(outcome) == AskResponse(ModelAnswer(outcome), <<>>, <<>>)

\* C3: an ask whose answer call returned no choices is answered differently
\* from an ask whose answer call raised.
C3_NoAnswerDiffersFromCallFailed ==
    \A p \in Procs :
        (IsAsk(p) /\ Done(p) /\ rq[p].call = "nochoices")
            => rq[p].resp[1] # Surfaced("raise")

\* C4: app.pdf_contents and the dictionary it names change only in a step of
\* an upload that is at its store write (lines 263-264), which has extracted
\* some content and then ends in success; no step of an ask and no step of an
\* upload that ends in a failure changes them.
C4_StoreChangesOnlyAtStoreWrite ==
    [][(attr' # attr \/ heap' # heap) =>
         \E p \in Procs :
            /\ IsUpload(p)
            /\ rq[p].pc \in {"assign", "index"}
            /\ rq'[p].pc # rq[p].pc
            /\ (Truthy(rq[p].text) \/ rq[p].images # <<>>)
            /\ (rq'[p].pc = "done" => rq'[p].resp[1].status = 200)]_vars

\* A request has ended in a failure while the store held a document.
C4_Witness ==
    /\ DOMAIN Store # {}
    /\ \E p \in Procs : Done(p) /\ rq[p].resp[1].status # 200

\* Some page of the file yields text with a visible (non-whitespace) character.
YieldsText(file) ==
    /\ file # None
    /\ file[1].plumberOpens
    /\ \E k \in 1..Len(file[1].pages) :
         \E i \in 1..Len(PageContribution(file[1].pages[k])) :
            \E j \in 1..Len(PageContribution(file[1].pages[k])[i]) :
               PageContribution(file[1].pages[k])[i][j] \notin Whitespace

\* Some image of the file is extracted.
YieldsImage(file) ==
    /\ file # None
    /\ file[1].fitzOpens
    /\ \E i \in 1..Len(file[1].images) : file[1].images[i].decodes

NoContentResponse == ErrorResponse(400, "Could not extract any content from PDF")

\* C5: the text extraction of an upload gives None exactly when no page of the
\* file it read yields visible text; the upload ends with 400 'Could not
\* extract any content' exactly when that holds and no image of the file is
\* extracted, and otherwise goes on to its store write; the store write puts an
\* entry under the upload's name and answers 200 with text_length the length
\* of the text in that entry.
C5_FailsIffNoContent ==
    [][\A p \in Procs :
         /\ (IsUpload(p) /\ rq[p].pc = "extract_text" /\ rq'[p].pc # "extract_text")
              => /\ rq'[p].text = None <=> ~YieldsText(FileAt(rq[p].fname))
                 /\ rq'[p].text # Some(<<>>)
         /\ (IsUpload(p) /\ rq[p].pc = "extract_images" /\ rq'[p].pc # "extract_images")
              => LET failed == rq'[p].pc = "done"
                 IN  /\ failed <=> (rq[p].text = None /\ ~YieldsImage(FileAt(rq[p].fname)))
                     /\ failed => rq'[p].resp[1] = NoContentResponse
                     /\ failed => (attr' = attr /\ heap' = heap)
                     /\ ~failed => rq'[p].pc = "getattr"
         /\ (IsUpload(p) /\ rq[p].pc \in {"getattr", "assign", "index"}
                /\ rq'[p].pc # rq[p].pc)
              => IF rq[p].pc = "index"
                 THEN /\ rq'[p].pc = "done"
                      /\ rq'[p].resp[1].status = 200
                      /\ rq[p].fname \in DOMAIN heap'[attr]
                      /\ rq'[p].resp[1].text_length = Len(heap'[attr][rq[p].fname].text)
                      /\ rq'[p].resp[1].image_count = Len(heap'[attr][rq[p].fname].images)
                 ELSE rq'[p].pc \in {"assign", "index"}]_vars

\* An upload was judged to have failed extraction after one whose file had
\* images but no text was stored with the empty text.
C5_Witness ==
    /\ \E p \in Procs : Done(p) /\ IsUpload(p) /\ rq[p].resp[1] = NoContentResponse
    /\ \E n \in DOMAIN Store : Store[n].text = <<>> /\ Store[n].images # <<>>

\* The context the claim describes, for the images from index i on.
RECURSIVE ClaimedBlocks(_, _, _)
ClaimedBlocks(images, descs, i) ==
    IF i > Len(images) THEN <<>>
    ELSE (IF descs[i] = "ok" THEN ImageLabel(i, images[i]) \o Description \o <<"\n">>
          ELSE <<>>)
         \o ClaimedBlocks(images, descs, i + 1)

ClaimedContext(text, images, descs) ==
    IF images = <<>> THEN text
    ELSE text \o Header \o ClaimedBlocks(images, descs, 1)

\* C7: when the answer call is made, the context is the stored text alone if
\* there are no images, and else the text, the header and one page-labeled
\* block per image whose description call succeeded, with nothing for an image
\* whose description call failed; every image has had its description call.
C7_ContextOmitsFailedImages ==
    \A p \in Procs :
        (IsAsk(p) /\ rq[p].pc = "answer")
            => /\ Len(rq[p].descs) = Len(rq[p].images)
               /\ rq[p].ctx = ClaimedContext(rq[p].text[1], rq[p].images, rq[p].descs)

\* C8: with the credential absent, every ask has ended with 500 'API key not
\* configured' and has made no remote call.
C8_NoCredentialNoCall ==
    ~apiKey =>
        \A p \in Procs :
            IsAsk(p) => /\ Done(p)
                        /\ rq[p].calls = 0
                        /\ rq[p].resp[1] = ErrorResponse(500, "API key not configured")

\* Without the credential, a complete ask about a stored file has ended.
C8_Witness ==
    /\ ~apiKey
    /\ \E p \in Procs :
         /\ IsAsk(p) /\ Done(p)
         /\ rq[p].body[1].question # None
         /\ rq[p].body[1].filename # None
         /\ rq[p].body[1].filename[1] \in DOMAIN Store

\* C9: a filename present in the DocumentStore is present in every later state.
C9_NeverDestroyed == [][\A n \in DOMAIN Store : n \in DOMAIN Store']_vars

\* The text and the images an upload of the bytes `label` stores when no other
\* request touches its file.
TextOf(label) ==
    IF extract_pdf_text(Some(Bytes(label))) = None THEN <<>>
    ELSE extract_pdf_text(Some(Bytes(label)))[1]

ImagesOf(label) == extract_images_from_pdf(Some(Bytes(label)))

\* C10: every store entry holds the text and the images extracted from the
\* bytes of one upload, the one that wrote the entry.
C10_EntryFromOneUpload ==
    \A n \in DOMAIN Store :
        /\ Store[n].text = TextOf(Store[n].by)
        /\ Store[n].images = ImagesOf(Store[n].by)

====
